---- MODULE Spec2Model ----
(***************************************************************************)
(* AccReader (format/src/buffer/accreader.rs): a buffered reader with      *)
(* partial consumption over a Read + Seek source.                          *)
(*                                                                         *)
(* Rust slices are 0-based, TLA+ sequences 1-based: Rust's buf[i] is       *)
(* buf[i + 1] here.  pos, end, index and the source cursor keep the        *)
(* 0-based values of the code.                                             *)
(***************************************************************************)
EXTENDS Integers, Sequences, FiniteSets, TLC

\* ------------------------------------------------------------------ bounds

\* length of the source's content
SrcLen == 4
\* largest capacity given to with_capacity
MaxCap == 2
\* largest total capacity grow may reach
MaxBuf == 3
\* largest amount passed to consume
MaxAmt == 2
\* largest destination length passed to read
MaxDest == 3
\* largest absolute seek target
MaxSeek == 4
\* largest magnitude of a relative or end-relative seek offset
MaxRel == 1
\* largest value index or the source cursor may take (caps the counters)
MaxIndex == 5
\* most bytes a short read of the source delivers
ShortLen == 1

Min(a, b) == IF a <= b THEN a ELSE b

\* ------------------------------------------------------------------ state

VARIABLES
    inner,      \* the source: [data, cur, log]; log = the calls it received
                \* during the last operation, each with the count or position
                \* it returned (-1: an error)
    buf,        \* Vec<u8>
    pos,
    end,
    index,
    last,       \* the last operation as its caller saw it
    out,        \* bytes handed out by read calls, while only reads were made
    eaten,      \* bytes consumed, while only fill_buf / consume(k <= window)
    hist        \* which operations happened since construction

vars == <<inner, buf, pos, end, index, last, out, eaten, hist>>

\* the reader as one value
Self == [inner |-> inner, buf |-> buf, pos |-> pos, end |-> end, index |-> index]

Zeros(n) == [i \in 1..n |-> 0]

\* the source's content: byte i of the stream has value i, so that a lost,
\* duplicated or reordered byte is visible
SourceData(n) == [i \in 1..n |-> i]

\* ------------------------------------------------------------ the source

\* how one read of the source goes: it fails, delivers all it can, or
\* delivers at most ShortLen bytes (a short read)
ReadModes == {"fail", "full", "short"}

\* Read::read on the source, into a destination of length len.  A call on a
\* non-empty destination with bytes left delivers at least one byte.
inner_read(inn, len, mode) ==
    LET avail == IF inn.cur < Len(inn.data) THEN Len(inn.data) - inn.cur ELSE 0
        full == Min(len, avail)
        r == IF mode = "short" THEN Min(full, ShortLen) ELSE full
    IN  IF mode = "fail"
        THEN [inner |-> [inn EXCEPT !.log = Append(@, [call |-> "read", n |-> -1])],
              ok |-> FALSE, bytes |-> <<>>]
        ELSE [inner |-> [inn EXCEPT !.cur = @ + r,
                                    !.log = Append(@, [call |-> "read", n |-> r])],
              ok |-> TRUE,
              bytes |-> SubSeq(inn.data, inn.cur + 1, inn.cur + r)]

\* Seek::seek on the source (std::io::Cursor): the new absolute position, or
\* an error when it would be negative or the source fails.
inner_seek(inn, whence, off, fail) ==
    LET target == CASE whence = "Start" -> off
                    [] whence = "End" -> Len(inn.data) + off
                    [] OTHER -> inn.cur + off
    IN  IF fail \/ target < 0
        THEN [inner |-> [inn EXCEPT !.log = Append(@, [call |-> "seek", n |-> -1])],
              ok |-> FALSE, ret |-> -1]
        ELSE [inner |-> [inn EXCEPT !.cur = target,
                                    !.log = Append(@, [call |-> "seek", n |-> target])],
              ok |-> TRUE, ret |-> target]

\* ------------------------------------------------------------ the reader

with_capacity(cap, inn) ==
    [inner |-> inn, buf |-> Zeros(cap), pos |-> 0, end |-> 0, index |-> 0]

\* &self.buf[self.pos..self.end]
current_slice(s) == SubSeq(s.buf, s.pos + 1, s.end)

\* capacity(): the unconsumed length
capacity(s) == s.end - s.pos

\* mutant of data: the bytes from pos to the end of the buffer
data_to_capacity(s) == SubSeq(s.buf, s.pos + 1, Len(s.buf))

\* Buffered::data: &self.buf[self.pos..self.end]
data(s) == SubSeq(s.buf, s.pos + 1, s.end)

\* mutant of copy_down: the same moves made from the last byte to the first
RECURSIVE copy_backwards(_, _, _, _)
copy_backwards(b, p, i, n) ==
    IF i >= n THEN b
    ELSE LET rest == copy_backwards(b, p, i + 1, n)
         IN  [rest EXCEPT ![i + 1] = rest[p + i + 1]]

\* for i in 0..n { buf[i] = buf[pos + i] }, from i on
RECURSIVE copy_down(_, _, _, _)
copy_down(b, p, i, n) ==
    IF i >= n THEN b
    ELSE copy_down([b EXCEPT ![i + 1] = b[p + i + 1]], p, i + 1, n)

\* mutant of reset_buffer_position: the offsets are reset, no byte is moved
reset_without_move(s) == [s EXCEPT !.end = s.end - s.pos, !.pos = 0]

reset_buffer_position(s) ==
    LET moved == IF s.end - s.pos > 0
                 THEN copy_down(s.buf, s.pos, 0, s.end - s.pos)
                 ELSE s.buf
    IN  [s EXCEPT !.buf = moved, !.end = s.end - s.pos, !.pos = 0]

\* mutant of grow: the new space is put in front of the old
grow_in_front(s, len) == [s EXCEPT !.buf = Zeros(len) \o s.buf]

grow(s, len) == [s EXCEPT !.buf = s.buf \o Zeros(len)]

\* mutant of consume: index is left alone
consume_keeps_index(s, amt) == [s EXCEPT !.pos = Min(s.pos + amt, s.end)]

\* mutant of consume: pos is not clamped to end
consume_unclamped(s, amt) ==
    [s EXCEPT !.pos = s.pos + amt, !.index = s.index + amt]

consume(s, amt) ==
    [s EXCEPT !.pos = Min(s.pos + amt, s.end), !.index = s.index + amt]

\* b with bytes written from 0-based offset at on
write_at(b, at, bytes) ==
    [i \in 1..Len(b) |->
        IF i > at /\ i <= at + Len(bytes) THEN bytes[i - at] ELSE b[i]]

\* <&[u8] as Read>::read: copies min(len) bytes to the front of dest
slice_read(src, dest) ==
    LET n == Min(Len(src), Len(dest))
    IN  [len |-> n, dest |-> write_at(dest, 0, SubSeq(src, 1, n))]

\* mutant of fill_buf: refills only when pos != 0 and end != capacity
fill_buf_and(s, mode) ==
    IF s.pos # 0 /\ s.end # Len(s.buf)
    THEN LET s1 == reset_buffer_position(s)
             rd == inner_read(s1.inner, Len(s1.buf) - s1.end, mode)
         IN  IF ~rd.ok
             THEN [self |-> [s1 EXCEPT !.inner = rd.inner],
                   ok |-> FALSE, ret |-> <<>>, path |-> "refill"]
             ELSE LET s2 == [s1 EXCEPT !.inner = rd.inner,
                                       !.buf = write_at(s1.buf, s1.end, rd.bytes),
                                       !.end = s1.end + Len(rd.bytes)]
                  IN  [self |-> s2, ok |-> TRUE,
                       ret |-> current_slice(s2), path |-> "refill"]
    ELSE [self |-> s, ok |-> TRUE, ret |-> current_slice(s), path |-> "ready"]

fill_buf(s, mode) ==
    IF s.pos # 0 \/ s.end # Len(s.buf)
    THEN LET s1 == reset_buffer_position(s)
             rd == inner_read(s1.inner, Len(s1.buf) - s1.end, mode)
         IN  IF ~rd.ok
             THEN [self |-> [s1 EXCEPT !.inner = rd.inner],
                   ok |-> FALSE, ret |-> <<>>, path |-> "refill"]
             ELSE LET s2 == [s1 EXCEPT !.inner = rd.inner,
                                       !.buf = write_at(s1.buf, s1.end, rd.bytes),
                                       !.end = s1.end + Len(rd.bytes)]
                  IN  [self |-> s2, ok |-> TRUE,
                       ret |-> current_slice(s2), path |-> "refill"]
    ELSE [self |-> s, ok |-> TRUE, ret |-> current_slice(s), path |-> "ready"]

\* mutant of read: the small branch copies from the start of the buffer
read_small_from_start(s, dest, mode) ==
    IF Len(dest) < s.end - s.pos
    THEN LET sr == slice_read(SubSeq(s.buf, 1, Len(dest)), dest)
         IN  [self |-> consume(s, sr.len), ok |-> TRUE, ret |-> sr.len,
              dest |-> sr.dest, path |-> "small"]
    ELSE IF Len(dest) > Len(s.buf)
    THEN LET sr == slice_read(current_slice(s), dest)
             s1 == consume(s, sr.len)
             rd == inner_read(s1.inner, Len(dest) - s1.end, mode)
             s2 == [s1 EXCEPT !.inner = rd.inner]
         IN  IF ~rd.ok
             THEN [self |-> s2, ok |-> FALSE, ret |-> -1, dest |-> sr.dest,
                   path |-> "oversized"]
             ELSE [self |-> s2, ok |-> TRUE, ret |-> Len(rd.bytes),
                   dest |-> write_at(sr.dest, s1.end, rd.bytes),
                   path |-> "oversized"]
    ELSE LET fb == fill_buf(s, mode)
         IN  IF ~fb.ok
             THEN [self |-> fb.self, ok |-> FALSE, ret |-> -1, dest |-> dest,
                   path |-> "fill"]
             ELSE LET sr == slice_read(fb.ret, dest)
                  IN  [self |-> consume(fb.self, sr.len), ok |-> TRUE,
                       ret |-> sr.len, dest |-> sr.dest, path |-> "fill"]

\* mutant of read: the fill branch consumes the requested length, not the
\* count copied
read_consumes_request(s, dest, mode) ==
    IF Len(dest) < s.end - s.pos
    THEN LET sr == slice_read(SubSeq(s.buf, s.pos + 1, s.pos + Len(dest)), dest)
         IN  [self |-> consume(s, sr.len), ok |-> TRUE, ret |-> sr.len,
              dest |-> sr.dest, path |-> "small"]
    ELSE IF Len(dest) > Len(s.buf)
    THEN LET sr == slice_read(current_slice(s), dest)
             s1 == consume(s, sr.len)
             rd == inner_read(s1.inner, Len(dest) - s1.end, mode)
             s2 == [s1 EXCEPT !.inner = rd.inner]
         IN  IF ~rd.ok
             THEN [self |-> s2, ok |-> FALSE, ret |-> -1, dest |-> sr.dest,
                   path |-> "oversized"]
             ELSE [self |-> s2, ok |-> TRUE, ret |-> Len(rd.bytes),
                   dest |-> write_at(sr.dest, s1.end, rd.bytes),
                   path |-> "oversized"]
    ELSE LET fb == fill_buf(s, mode)
         IN  IF ~fb.ok
             THEN [self |-> fb.self, ok |-> FALSE, ret |-> -1, dest |-> dest,
                   path |-> "fill"]
             ELSE LET sr == slice_read(fb.ret, dest)
                  IN  [self |-> consume(fb.self, Len(dest)), ok |-> TRUE,
                       ret |-> sr.len, dest |-> sr.dest, path |-> "fill"]

read(s, dest, mode) ==
    IF Len(dest) < s.end - s.pos
    THEN LET sr == slice_read(SubSeq(s.buf, s.pos + 1, s.pos + Len(dest)), dest)
         IN  [self |-> consume(s, sr.len), ok |-> TRUE, ret |-> sr.len,
              dest |-> sr.dest, path |-> "small"]
    ELSE IF Len(dest) > Len(s.buf)
    THEN LET sr == slice_read(current_slice(s), dest)
             s1 == consume(s, sr.len)
             rd == inner_read(s1.inner, Len(dest) - s1.end, mode)
             s2 == [s1 EXCEPT !.inner = rd.inner]
         IN  IF ~rd.ok
             THEN [self |-> s2, ok |-> FALSE, ret |-> -1, dest |-> sr.dest,
                   path |-> "oversized"]
             ELSE [self |-> s2, ok |-> TRUE, ret |-> Len(rd.bytes),
                   dest |-> write_at(sr.dest, s1.end, rd.bytes),
                   path |-> "oversized"]
    ELSE LET fb == fill_buf(s, mode)
         IN  IF ~fb.ok
             THEN [self |-> fb.self, ok |-> FALSE, ret |-> -1, dest |-> dest,
                   path |-> "fill"]
             ELSE LET sr == slice_read(fb.ret, dest)
                  IN  [self |-> consume(fb.self, sr.len), ok |-> TRUE,
                       ret |-> sr.len, dest |-> sr.dest, path |-> "fill"]

\* mutant of seek_in_buffer: the absolute arm also serves the offset just
\* past the window (<= for <)
seek_in_buffer_past_end(s, whence, off) ==
    CASE whence = "Start" ->
            IF off >= s.index /\ off <= s.index + s.end - s.pos
            THEN [hit |-> TRUE, ret |-> off,
                  self |-> [s EXCEPT !.pos = s.pos + (off - s.index), !.index = off]]
            ELSE [hit |-> FALSE, ret |-> -1, self |-> s]
      [] whence = "Current" ->
            IF off >= 0 /\ off <= s.end - s.pos
            THEN [hit |-> TRUE, ret |-> off,
                  self |-> [s EXCEPT !.index = off, !.pos = s.pos + off]]
            ELSE [hit |-> FALSE, ret |-> -1, self |-> s]
      [] OTHER -> [hit |-> FALSE, ret |-> -1, self |-> s]

\* mutant of seek_in_buffer: the absolute arm sets pos to the target instead
\* of moving it by the distance
seek_in_buffer_abs_pos(s, whence, off) ==
    CASE whence = "Start" ->
            IF off >= s.index /\ off < s.index + s.end - s.pos
            THEN [hit |-> TRUE, ret |-> off,
                  self |-> [s EXCEPT !.pos = off, !.index = off]]
            ELSE [hit |-> FALSE, ret |-> -1, self |-> s]
      [] whence = "Current" ->
            IF off >= 0 /\ off <= s.end - s.pos
            THEN [hit |-> TRUE, ret |-> off,
                  self |-> [s EXCEPT !.index = off, !.pos = s.pos + off]]
            ELSE [hit |-> FALSE, ret |-> -1, self |-> s]
      [] OTHER -> [hit |-> FALSE, ret |-> -1, self |-> s]

\* the buffer-served arms of seek; hit = the early return was taken
seek_in_buffer(s, whence, off) ==
    CASE whence = "Start" ->
            IF off >= s.index /\ off < s.index + s.end - s.pos
            THEN [hit |-> TRUE, ret |-> off,
                  self |-> [s EXCEPT !.pos = s.pos + (off - s.index), !.index = off]]
            ELSE [hit |-> FALSE, ret |-> -1, self |-> s]
      [] whence = "Current" ->
            IF off >= 0 /\ off <= s.end - s.pos
            THEN [hit |-> TRUE, ret |-> off,
                  self |-> [s EXCEPT !.index = off, !.pos = s.pos + off]]
            ELSE [hit |-> FALSE, ret |-> -1, self |-> s]
      [] OTHER -> [hit |-> FALSE, ret |-> -1, self |-> s]

\* mutant of seek: pos and end are reset before the source's seek is tried
seek_resets_first(s, whence, off, failSeek, mode) ==
    LET early == seek_in_buffer(s, whence, off)
    IN  IF early.hit
        THEN [self |-> early.self, ok |-> TRUE, ret |-> early.ret,
              path |-> "buffer"]
        ELSE LET s0 == [s EXCEPT !.pos = 0, !.end = 0]
                 sk == inner_seek(s0.inner, whence, off, failSeek)
             IN  IF ~sk.ok
                 THEN [self |-> [s0 EXCEPT !.inner = sk.inner], ok |-> FALSE,
                       ret |-> -1, path |-> "source"]
                 ELSE LET s1 == [s0 EXCEPT !.inner = sk.inner, !.index = sk.ret]
                          fb == fill_buf(s1, mode)
                      IN  [self |-> fb.self, ok |-> fb.ok,
                           ret |-> IF fb.ok THEN sk.ret ELSE -1,
                           path |-> "source"]

\* mutant of seek: index is set from the requested offset, not from the
\* position the source reported
seek_index_from_offset(s, whence, off, failSeek, mode) ==
    LET early == seek_in_buffer(s, whence, off)
    IN  IF early.hit
        THEN [self |-> early.self, ok |-> TRUE, ret |-> early.ret,
              path |-> "buffer"]
        ELSE LET sk == inner_seek(s.inner, whence, off, failSeek)
             IN  IF ~sk.ok
                 THEN [self |-> [s EXCEPT !.inner = sk.inner], ok |-> FALSE,
                       ret |-> -1, path |-> "source"]
                 ELSE LET s1 == [s EXCEPT !.inner = sk.inner, !.index = off,
                                          !.pos = 0, !.end = 0]
                          fb == fill_buf(s1, mode)
                      IN  [self |-> fb.self, ok |-> fb.ok,
                           ret |-> IF fb.ok THEN sk.ret ELSE -1,
                           path |-> "source"]

seek(s, whence, off, failSeek, mode) ==
    LET early == seek_in_buffer(s, whence, off)
    IN  IF early.hit
        THEN [self |-> early.self, ok |-> TRUE, ret |-> early.ret,
              path |-> "buffer"]
        ELSE LET sk == inner_seek(s.inner, whence, off, failSeek)
             IN  IF ~sk.ok
                 THEN [self |-> [s EXCEPT !.inner = sk.inner], ok |-> FALSE,
                       ret |-> -1, path |-> "source"]
                 ELSE LET s1 == [s EXCEPT !.inner = sk.inner, !.index = sk.ret,
                                          !.pos = 0, !.end = 0]
                          fb == fill_buf(s1, mode)
                      IN  [self |-> fb.self, ok |-> fb.ok,
                           ret |-> IF fb.ok THEN sk.ret ELSE -1,
                           path |-> "source"]

\* -------------------------------------------------- operations as actions

\* no call is under way: the caller has taken the last result
Idle ==
    [op |-> "idle", whence |-> "", n |-> 0, path |-> "", ok |-> TRUE,
     ret |-> 0, dest |-> <<>>]

\* the reader as a call finds it
Entry == Self

Bounded(s) == s.index <= MaxIndex /\ s.inner.cur <= MaxIndex

Install(s) ==
    /\ last = Idle
    /\ Bounded(s)
    /\ inner' = s.inner
    /\ buf' = s.buf
    /\ pos' = s.pos
    /\ end' = s.end
    /\ index' = s.index

\* what the caller saw of the operation: its name and arguments, the branch
\* it took, whether it returned Ok, the value returned and, for a read, the
\* destination afterwards
Record(op, whence, n, path, ok, ret, dest) ==
    last' = [op |-> op, whence |-> whence, n |-> n, path |-> path, ok |-> ok,
             ret |-> ret, dest |-> dest]

Init ==
    /\ \E cap \in 0..MaxCap :
          LET s == with_capacity(cap, [data |-> SourceData(SrcLen), cur |-> 0, log |-> <<>>])
          IN  /\ inner = s.inner
              /\ buf = s.buf
              /\ pos = s.pos
              /\ end = s.end
              /\ index = s.index
              /\ last = [op |-> "new", whence |-> "", n |-> cap, path |-> "",
                         ok |-> TRUE, ret |-> 0, dest |-> <<>>]
    /\ out = <<>>
    /\ eaten = <<>>
    /\ hist = [reads |-> TRUE, stream |-> TRUE]

FillBuf ==
    \E mode \in ReadModes :
        LET r == fill_buf(Entry, mode)
        IN  /\ Install(r.self)
            /\ Record("fill_buf", "", 0, r.path, r.ok, Len(r.ret), <<>>)
            /\ hist' = [hist EXCEPT !.reads = FALSE]
            /\ out' = <<>>
            /\ eaten' = eaten

Consume ==
    \E amt \in 0..MaxAmt :
        LET s == consume(Entry, amt)
            within == amt <= end - pos
        IN  /\ Install(s)
            /\ Record("consume", "", amt, IF within THEN "within" ELSE "clamped",
                      TRUE, 0, <<>>)
            /\ hist' = [reads |-> FALSE, stream |-> hist.stream /\ within]
            /\ out' = <<>>
            /\ eaten' = IF hist.stream /\ within
                        THEN eaten \o SubSeq(current_slice(Entry), 1, amt)
                        ELSE <<>>

Grow ==
    \E len \in 0..MaxBuf :
        /\ Len(buf) + len <= MaxBuf
        /\ Install(grow(Entry, len))
        /\ Record("grow", "", len, "", TRUE, 0, <<>>)
        /\ hist' = [reads |-> FALSE, stream |-> FALSE]
        /\ out' = <<>>
        /\ eaten' = <<>>

Read ==
    \E n \in 0..MaxDest, mode \in ReadModes :
        LET r == read(Entry, Zeros(n), mode)
        IN  /\ Install(r.self)
            /\ Record("read", "", n, r.path, r.ok, r.ret, r.dest)
            /\ hist' = [reads |-> hist.reads, stream |-> FALSE]
            /\ out' = IF ~hist.reads THEN <<>>
                      ELSE IF r.ok THEN out \o SubSeq(r.dest, 1, r.ret)
                      ELSE out
            /\ eaten' = <<>>

\* current_slice() or data(): both take &self, so the reader is what it was.
\* A peek may follow a peek at once: the caller compares the two results;
\* the record's n tells the first peek (1) from one that follows a peek (2).
Peek ==
    \E which \in {"current_slice", "data"} :
        LET slice == IF which = "data" THEN data(Entry) ELSE current_slice(Entry)
        IN  /\ last.op \in {"idle", "peek"}
            /\ Record("peek", which, IF last.op = "peek" THEN 2 ELSE 1, "",
                      TRUE, Len(slice), slice)
            /\ inner' = [inner EXCEPT !.log = <<>>]
            /\ UNCHANGED <<buf, pos, end, index, out, eaten, hist>>

\* how a seek's source calls go: the source's seek fails, or it succeeds and
\* the read of the eager fill goes one of the ReadModes ways
SeekModes == {<<TRUE, "full">>} \cup ({FALSE} \X ReadModes)

SeekOffsets(whence) ==
    IF whence = "Start" THEN 0..MaxSeek ELSE (-MaxRel)..MaxRel

Seek ==
    \E whence \in {"Start", "Current", "End"}, how \in SeekModes :
        \E off \in SeekOffsets(whence) :
            LET r == seek(Entry, whence, off, how[1], how[2])
            IN  /\ Install(r.self)
                /\ Record("seek", whence, off, r.path, r.ok, r.ret, <<>>)
                /\ hist' = [reads |-> FALSE, stream |-> FALSE]
                /\ out' = <<>>
                /\ eaten' = <<>>

\* the caller takes the result of the call; the source's call log is cleared
\* for the next call
Observe ==
    /\ last # Idle
    /\ last' = Idle
    /\ inner' = [inner EXCEPT !.log = <<>>]
    /\ UNCHANGED <<buf, pos, end, index, out, eaten, hist>>

Next == FillBuf \/ Consume \/ Grow \/ Read \/ Seek \/ Peek \/ Observe

Spec == Init /\ [][Next]_vars

\* ------------------------------------------------------------------ claims

\* the unconsumed window buf[pos..end)
Window == current_slice(Self)

\* n bytes of the source from absolute offset at on
SourceBytes(at, n) == SubSeq(inner.data, at + 1, at + n)

\* C1: in every reachable state index is the source offset of the byte at
\* pos: the window is the source's bytes at index .. index + (end - pos) and
\* the source's cursor is at index + (end - pos).
C1_IndexTracksSource ==
    /\ inner.cur = index + (end - pos)
    /\ end - pos > 0 =>
          /\ index + (end - pos) <= Len(inner.data)
          /\ Window = SourceBytes(index, end - pos)

\* C2: consume(amt) advances pos and index by min(amt, end - pos), for every
\* amt, and leaves end and the buffer alone.
C2_ConsumeClampsBoth ==
    [][last'.op = "consume" =>
         LET k == Min(last'.n, end - pos)
         IN  /\ pos' = pos + k
             /\ index' = index + k
             /\ end' = end
             /\ buf' = buf]_vars

\* C3: a consume(k) with k at most the window's length shrinks the window by
\* exactly k, advances index by exactly k and leaves the window's suffix
\* after its first k bytes.
C3_ConsumeWithinWindow ==
    [][(last'.op = "consume" /\ last'.n <= end - pos) =>
         /\ end' - pos' = (end - pos) - last'.n
         /\ index' = index + last'.n
         /\ Window' = SubSeq(Window, last'.n + 1, Len(Window))]_vars

\* C3 witness: the second or a later consume of a run of consumes, of one
\* byte, with bytes left in the window
C3_Witness ==
    /\ last.op = "consume" /\ last.path = "within" /\ last.n = 1
    /\ hist.stream /\ Len(eaten) >= 2
    /\ end - pos >= 1

\* C4: while only read calls are made, the bytes they handed out (the first
\* ret bytes of each destination, in call order) are the source's bytes in
\* order, none lost, duplicated or reordered, whatever branch each read took.
C4_ReadRoundTrip ==
    hist.reads =>
        /\ Len(out) <= Len(inner.data)
        /\ out = SourceBytes(0, Len(out))
        /\ Len(out) + (end - pos) = inner.cur

\* C5: a reader of capacity >= 1 driven only by fill_buf and consume(k), k at
\* most the window's length: the consumed bytes are a prefix of the source,
\* the window continues it, and once fill_buf returns an empty window they
\* are the whole source.
C5_StreamNoLossNoDup ==
    (hist.stream /\ Len(buf) >= 1) =>
        /\ Len(eaten) <= Len(inner.data)
        /\ eaten = SourceBytes(0, Len(eaten))
        /\ Len(eaten) + (end - pos) = inner.cur
        /\ (last.op = "fill_buf" /\ last.ok /\ last.ret = 0) => eaten = inner.data

\* C5 witness: a buffer smaller than the source, refilled until fill_buf
\* returned an empty window, with the whole source consumed
C5_Witness ==
    /\ hist.stream
    /\ Len(buf) >= 1 /\ Len(buf) < Len(inner.data)
    /\ last.op = "fill_buf" /\ last.ok /\ last.ret = 0
    /\ eaten = inner.data

\* C6 as stated, for any capacity: a successful fill_buf on a reader whose
\* source has an unread byte leaves a non-empty window.
C6_FillNonEmptyAnyCapacity ==
    [][(last'.op = "fill_buf" /\ last'.ok /\ inner.cur < Len(inner.data)) =>
         end' - pos' >= 1]_vars

\* C6 amended: the same for a reader of total capacity >= 1.
C6_FillNonEmpty ==
    [][(last'.op = "fill_buf" /\ last'.ok /\ inner.cur < Len(inner.data)
          /\ Len(buf) >= 1) =>
         end' - pos' >= 1]_vars

\* C6 witness: a fill_buf on an empty window that read the source and
\* returned the bytes it delivered
C6_Witness ==
    /\ last.op = "fill_buf" /\ last.ok
    /\ Len(inner.log) = 1 /\ inner.log[1].call = "read" /\ inner.log[1].n >= 1
    /\ last.ret = inner.log[1].n
    /\ end - pos >= 1

\* C7: a successful fill_buf with pos != 0 or end != capacity sets pos to 0,
\* keeps the old window in order at the front, appends the r bytes the
\* source returned (0 <= r <= capacity - old window length), sets end to the
\* old window length + r and leaves index alone.
C7_FillRetainsAndAppends ==
    [][(last'.op = "fill_buf" /\ last'.ok /\ (pos # 0 \/ end # Len(buf))) =>
         LET old == Window
             r == inner'.cur - inner.cur
         IN  /\ Len(inner'.log) = 1
             /\ inner'.log[1] = [call |-> "read", n |-> r]
             /\ 0 <= r /\ r <= Len(buf) - Len(old)
             /\ pos' = 0
             /\ end' = Len(old) + r
             /\ index' = index
             /\ Len(buf') = Len(buf)
             /\ Window' = old \o SourceBytes(inner.cur, r)]_vars

\* C7 witness: a refill that kept at least two bytes, after some were
\* consumed, and appended at least one
C7_Witness ==
    /\ last.op = "fill_buf" /\ last.ok /\ last.path = "refill"
    /\ Len(inner.log) = 1 /\ inner.log[1].n >= 1
    /\ last.ret - inner.log[1].n >= 2
    /\ index >= 1
    /\ pos = 0 /\ end = last.ret

\* C8: grow(len) adds exactly len to the capacity and changes none of pos,
\* end, index, the source's cursor and the window; the source is not called.
C8_GrowKeepsWindow ==
    [][last'.op = "grow" =>
         /\ Len(buf') = Len(buf) + last'.n
         /\ pos' = pos /\ end' = end /\ index' = index
         /\ inner'.cur = inner.cur
         /\ inner'.log = <<>>
         /\ Window' = Window]_vars

\* C8 witness: a grow by at least one on a non-empty window that starts
\* past offset 0
C8_Witness ==
    /\ last.op = "grow" /\ last.n >= 1
    /\ pos >= 1 /\ end - pos >= 1

\* the request of a seek is in the window: absolute to T with
\* index <= T < index + (end - pos), or relative by S with 0 <= S <= end - pos
InWindow(whence, off) ==
    \/ whence = "Start" /\ index <= off /\ off < index + (end - pos)
    \/ whence = "Current" /\ 0 <= off /\ off <= end - pos

\* C9: an in-window seek calls neither the source's seek nor its read; every
\* other seek calls the source's seek, once and first.
C9_SeekCallsSourceIffOutside ==
    [][last'.op = "seek" =>
         IF InWindow(last'.whence, last'.n)
         THEN inner'.log = <<>>
         ELSE /\ Len(inner'.log) >= 1
              /\ inner'.log[1].call = "seek"
              /\ \A i \in 2..Len(inner'.log) : inner'.log[i].call # "seek"]_vars

\* C9 witness: an absolute seek past offset 0 served from the buffer, the
\* source not called
C9_Witness ==
    /\ last.op = "seek" /\ last.whence = "Start" /\ last.n >= 1
    /\ last.path = "buffer" /\ last.ok
    /\ inner.log = <<>>

\* C10: an in-window absolute seek to T moves pos by T - index, sets index to
\* T, leaves end and the buffer alone and returns T; the window loses its
\* first T - index bytes.
C10_SeekStartInWindow ==
    [][(last'.op = "seek" /\ last'.whence = "Start"
          /\ index <= last'.n /\ last'.n < index + (end - pos)) =>
         LET T == last'.n
         IN  /\ pos' = pos + (T - index)
             /\ index' = T
             /\ end' = end
             /\ buf' = buf
             /\ last'.ok /\ last'.ret = T
             /\ Window' = SubSeq(Window, T - index + 1, Len(Window))]_vars

\* C10 witness: an in-window absolute seek that returned its target, with pos
\* past offset 0 and bytes left in the window
C10_Witness ==
    /\ last.op = "seek" /\ last.whence = "Start" /\ last.path = "buffer"
    /\ last.ok /\ last.ret = last.n /\ index = last.n
    /\ last.n >= 1 /\ pos >= 1 /\ end - pos >= 1


\* index is the source offset of the byte at pos (the statement of C1)
Tracking ==
    /\ inner.cur = index + (end - pos)
    /\ Window = SourceBytes(index, end - pos)

\* C11: an in-window relative seek by S (0 <= S <= end - pos) moves pos and
\* index forward by S, whatever index was, and leaves end alone.  Stated from
\* the states where index tracks the source, so that what fails is the seek.
C11_SeekCurrentInWindow ==
    [][(last'.op = "seek" /\ last'.whence = "Current"
          /\ 0 <= last'.n /\ last'.n <= end - pos
          /\ Tracking) =>
         /\ pos' = pos + last'.n
         /\ index' = index + last'.n
         /\ end' = end]_vars

\* C12: a seek whose source seek fails returns the error and leaves pos, end,
\* index and the buffer as they were.
C12_FailedSeekKeepsState ==
    [][(last'.op = "seek" /\ Len(inner'.log) >= 1
          /\ inner'.log[1] = [call |-> "seek", n |-> -1]) =>
         /\ ~last'.ok
         /\ Len(inner'.log) = 1
         /\ pos' = pos /\ end' = end /\ index' = index /\ buf' = buf
         /\ inner'.cur = inner.cur]_vars

\* C12 witness: a failed source seek on a reader with a non-empty window
\* that starts past offset 0
C12_Witness ==
    /\ last.op = "seek" /\ ~last.ok
    /\ inner.log = <<[call |-> "seek", n |-> -1]>>
    /\ pos >= 1 /\ end - pos >= 1

\* C13: a seek that goes to the source and succeeds sets index to the
\* position P the source reported, fills once and returns P; afterwards
\* pos = 0, end = the bytes that fill read, and the window is the source's
\* bytes from offset P.
C13_SourceSeekRefills ==
    [][(last'.op = "seek" /\ ~InWindow(last'.whence, last'.n) /\ last'.ok) =>
         LET P == inner'.log[1].n
             r == IF Len(inner'.log) >= 2 THEN inner'.log[2].n ELSE 0
         IN  /\ inner'.log[1].call = "seek" /\ P >= 0
             /\ Len(inner'.log) <= 2
             /\ Len(inner'.log) = 2 => inner'.log[2].call = "read"
             /\ Len(buf) >= 1 => Len(inner'.log) = 2
             /\ index' = P
             /\ last'.ret = P
             /\ pos' = 0
             /\ end' = r
             /\ inner'.cur = P + r
             /\ Window' = SourceBytes(P, r)]_vars

\* C13 witness: a relative or end-relative seek served by the source, from a
\* reader whose index was not the new position, that refilled the window
C13_Witness ==
    /\ last.op = "seek" /\ last.whence # "Start" /\ last.path = "source"
    /\ last.ok /\ last.ret >= 1 /\ last.ret # last.n
    /\ Len(inner.log) = 2 /\ inner.log[2].n >= 1
    /\ index = last.ret /\ pos = 0 /\ end = inner.log[2].n


\* C14: in every reachable state 0 <= pos <= end <= capacity.
C14_OffsetsInBounds ==
    /\ 0 <= pos
    /\ pos <= end
    /\ end <= Len(buf)

\* C14 witness: a consume asked for more than the window held, on a buffer
\* filled to its capacity: pos stopped at end
C14_Witness ==
    /\ last.op = "consume" /\ last.path = "clamped"
    /\ pos = end /\ end = Len(buf) /\ end >= 2

\* C15: a peek (current_slice or data) returns buf[pos..end) and changes none
\* of pos, end, index, the buffer and the source's cursor; a peek that
\* follows a peek returns the same bytes.
C15_PeekIsPure ==
    [][last'.op = "peek" =>
         /\ last'.dest = [i \in 1..(end - pos) |-> buf[pos + i]]
         /\ pos' = pos /\ end' = end /\ index' = index /\ buf' = buf
         /\ inner'.cur = inner.cur
         /\ inner'.log = <<>>
         /\ last.op = "peek" => last'.dest = last.dest]_vars

\* C15 witness: data() right after another peek, returning a non-empty
\* window that starts past offset 0
C15_Witness ==
    /\ last.op = "peek" /\ last.whence = "data" /\ last.n = 2
    /\ last.ret >= 1 /\ pos >= 1
    /\ last.dest = Window


\* C16: an oversized read (n > capacity) copies the d = end - pos window
\* bytes to destination[0..d) and consumes them, puts the bytes of the direct
\* source read right after them, and returns d plus the count of that read.
C16_OversizedRead ==
    [][(last'.op = "read" /\ last'.n > Len(buf) /\ last'.ok) =>
         LET d == end - pos
             r == inner'.log[1].n
         IN  /\ inner'.log = <<[call |-> "read", n |-> r]>>
             /\ SubSeq(last'.dest, 1, d) = Window
             /\ SubSeq(last'.dest, d + 1, d + r) = SourceBytes(inner.cur, r)
             /\ last'.ret = d + r
             /\ pos' = end /\ end' = end]_vars

\* C17: a small read (n < end - pos) gives the destination the first n
\* window bytes, returns n, advances pos and index by n, leaves end alone
\* and does not call the source.
C17_SmallRead ==
    [][(last'.op = "read" /\ last'.n < end - pos) =>
         LET n == last'.n
         IN  /\ last'.ok /\ last'.ret = n
             /\ last'.dest = SubSeq(Window, 1, n)
             /\ pos' = pos + n
             /\ index' = index + n
             /\ end' = end
             /\ buf' = buf
             /\ inner'.cur = inner.cur
             /\ inner'.log = <<>>]_vars

\* C17 witness: a small read of at least one byte from a window that
\* started past offset 0
C17_Witness ==
    /\ last.op = "read" /\ last.path = "small" /\ last.ok
    /\ last.n >= 1 /\ last.ret = last.n
    /\ pos > last.n /\ end - pos >= 1
    /\ inner.log = <<>>

\* C18: a fill-triggering read (end - pos <= n <= capacity) that returns Ok
\* fills once, returns m = min(n, window length after the fill), copies the
\* first m window bytes and consumes m; with n >= 1 it returns 0 only when
\* the window was empty and the source exhausted.
C18_FillRead ==
    [][(last'.op = "read" /\ end - pos <= last'.n /\ last'.n <= Len(buf)
          /\ last'.ok) =>
         LET n == last'.n
             r == IF Len(inner'.log) >= 1 THEN inner'.log[1].n ELSE 0
             filled == Window \o SourceBytes(inner.cur, r)
             m == Min(n, Len(filled))
         IN  /\ Len(inner'.log) <= 1
             /\ Len(inner'.log) = 1 => inner'.log[1].call = "read"
             /\ last'.ret = m
             /\ SubSeq(last'.dest, 1, m) = SubSeq(filled, 1, m)
             /\ pos' = m
             /\ end' = Len(filled)
             /\ index' = index + m
             /\ Window' = SubSeq(filled, m + 1, Len(filled))
             /\ (n >= 1 /\ m = 0) =>
                   (end - pos = 0 /\ inner.cur >= Len(inner.data))]_vars

\* C18 witness: a fill-triggering read that read the source and returned
\* fewer bytes than asked for, but some
C18_Witness ==
    /\ last.op = "read" /\ last.path = "fill" /\ last.ok
    /\ Len(inner.log) = 1 /\ inner.log[1].n >= 1
    /\ last.ret >= 1 /\ last.ret < last.n
    /\ pos = last.ret


\* C19: a relative seek by S that goes to the source (S < 0 or S > end - pos)
\* and succeeds moves the reader's position by S: index becomes the old index
\* + S, which is returned, and the window then holds the source's bytes from
\* that offset.  Stated from the states where index tracks the source and for
\* a target old index + S >= 0.
C19_SeekCurrentViaSource ==
    [][(last'.op = "seek" /\ last'.whence = "Current"
          /\ ~InWindow("Current", last'.n) /\ last'.ok
          /\ Tracking /\ index + last'.n >= 0) =>
         /\ index' = index + last'.n
         /\ last'.ret = index + last'.n
         /\ Window' = SourceBytes(index + last'.n, end' - pos')]_vars

\* C20: when fill_buf, read or seek returns an error, the error is the
\* source's (its last call failed) and the window's bytes, its length and
\* index are what they were before the call.
C20_ErrorKeepsWindow ==
    [][(last'.op \in {"fill_buf", "read", "seek"} /\ ~last'.ok) =>
         /\ Len(inner'.log) >= 1
         /\ inner'.log[Len(inner'.log)].n = -1
         /\ Window' = Window
         /\ index' = index]_vars

====
